---- MODULE Spec2Model ----
(***************************************************************************)
(* A model of the frame table (vm/frame.c) and of the directory layer      *)
(* (filesys/directory.c) of cs140-pintos.  Threads execute the functions   *)
(* statement by statement; a lock is a variable naming its holder.         *)
(***************************************************************************)
EXTENDS Integers, Sequences, FiniteSets, TLC

\* ------------------------------------------------------------------ bounds
\* Number of user-pool pages palloc_get_page hands out in frame_init.
NumFrames == 2

\* Longest file name of a directory entry (directory.h), kept small here.
NAME_MAX == 2
\* Most entries a directory inode has room for.
MaxSlots == 4
\* Longest path string passed to dir_open_dirs.
MaxPath == 6
\* Slots of the buffer cache (CACHE_NUM_SECTORS in cache.h), kept small here.
NumSlots == 2
\* The calls of the cache functions in one run.
MaxOps == 3

NULL == "NULL"
Threads == {"t1", "t2"}
Frames == 1..NumFrames
\* Virtual pages of the page layer that can be installed in a frame.
Pages == {"p1", "p2"}

VARIABLES
  \* ---- frame table (struct frame_table ft, struct frame, frame_table_lock)
  free_frames,       \* ft.free_frames, front first
  allocated_frames,  \* ft.allocated_frames, front first
  page,              \* frame->page
  pinned,            \* frame->pinned
  frame_table_lock,  \* holder of the lock, or NULL
  panicked,          \* PANIC was reached: the kernel has halted
  fpc,               \* per thread: the statement it is at
  farg,              \* per thread: the FRAME argument of free/pin/unpin
  fframe,            \* per thread: frame_alloc's local `frame'
  fe,                \* per thread: frame_pick_and_evict's cursor `e' (index)
  \* ---- observation of the frame table (not program state)
  owned,             \* frame -> returned by frame_alloc, not evicted/freed since
  guarded,           \* frame -> returned by frame_alloc, no unpin/free since
  last_evict,        \* what the latest frame_evict call saw and did
  scan_start,        \* allocated_frames when the current scan began
  scan_log,          \* the frame_evict calls of the current scan
  alloc_via          \* per thread: "free" / "evict" path of its frame_alloc

fvars == <<free_frames, allocated_frames, page, pinned, frame_table_lock,
           panicked, fpc, farg, fframe, fe, owned, guarded, last_evict,
           scan_start, scan_log, alloc_via>>

VARIABLES
  \* ---- inode layer, per sector
  ientries,   \* a directory inode's data: its array of struct dir_entry
  iopen,      \* inode->open_cnt (0: not open)
  iremoved,   \* inode->removed, set by inode_remove
  ilock,      \* holder of the inode's directory lock, or NULL
  \* ---- threads in the directory layer
  dh,         \* per thread: the struct dir it holds (its inode's sector), or NULL
  dres,       \* per thread: the inode dir_lookup handed it, still to be closed
  dpc,        \* per thread: the statement it is at
  dloc,       \* per thread: arguments and locals of the running function
  dpos        \* per thread: dir->pos of the struct dir it holds, in entries

dvars == <<ientries, iopen, iremoved, ilock, dh, dres, dpc, dloc, dpos>>

VARIABLES
  \* ---- dir_open_dirs, per thread
  cwd,         \* thread_current ()->cwd: the inode of its struct dir
  path_arg,    \* the FILEPATH the function was called with
  filepath,    \* what is left of FILEPATH
  parent_dir,  \* the struct dir held (its inode's sector), or NULL
  curr_inode,  \* the inode dir_lookup returned, or NULL
  curr_name,   \* the component being looked up
  ppc,         \* the statement it is at
  path_ret,    \* the value returned
  path_nomem   \* calloc returned NULL during the call

pvars == <<cwd, path_arg, filepath, parent_dir, curr_inode, curr_name, ppc,
           path_ret, path_nomem>>

VARIABLES
  \* ---- buffer cache (filesys/cache.h)
  cache,       \* the array of struct cache_sector
  block,       \* the block device: sector -> content
  cio,         \* per slot: the threads performing a device operation on it
  cpc,         \* per thread: the statement it is at
  creq,        \* per thread: arguments and locals of the running function
  wa_returned, \* since: cache_write_all has returned and no write was done
               \* since; quiet: nor was one done during the call
  cops         \* the number of calls of the cache functions so far

cvars == <<cache, block, cio, cpc, creq, wa_returned, cops>>

VARIABLES
  \* ---- callers of dir_readdir, per thread
  rd_names,    \* the names dir_readdir has stored for the caller so far
  rd_ret       \* what the last dir_readdir call returned, "none" before one

rvars == <<rd_names, rd_ret>>

\* No thread has called dir_readdir.
ReadIdle ==
  /\ rd_names = [t \in Threads |-> <<>>]
  /\ rd_ret = [t \in Threads |-> "none"]

\* The layers other than the frame table and the directory functions.
ovars == <<pvars, cvars, rvars>>

vars == <<fvars, dvars, ovars>>

\* ------------------------------------------------------- list primitives
\* list_remove (&frame->elem): unlink the element from the list it is on.
list_remove(l, f) == SelectSeq(l, LAMBDA x : x # f)
\* list_push_back
list_push_back(l, f) == Append(l, f)
\* list_pop_back: the back element and the remaining list
list_back(l) == l[Len(l)]
list_without_back(l) == SubSeq(l, 1, Len(l) - 1)

InList(l, f) == \E i \in 1..Len(l) : l[i] = f
Count(l, f) == Cardinality({i \in 1..Len(l) : l[i] = f})

\* --------------------------------------------------------------- frame_init
NoEvict == [frame |-> NULL, was_pinned |-> FALSE, had_page |-> NULL,
            called |-> FALSE, accepts |-> FALSE, ret |-> FALSE]

\* frame_init: every page of the user pool becomes a free frame, in order.
frame_init_free == [i \in 1..NumFrames |-> i]

FrameInit ==
  /\ free_frames = frame_init_free
  /\ allocated_frames = <<>>
  /\ page = [f \in Frames |-> NULL]
  /\ pinned = [f \in Frames |-> FALSE]
  /\ frame_table_lock = NULL
  /\ panicked = FALSE
  /\ fpc = [t \in Threads |-> "idle"]
  /\ farg = [t \in Threads |-> NULL]
  /\ fframe = [t \in Threads |-> NULL]
  /\ fe = [t \in Threads |-> 0]
  /\ owned = [f \in Frames |-> FALSE]
  /\ guarded = [f \in Frames |-> FALSE]
  /\ last_evict = NoEvict
  /\ scan_start = <<>>
  /\ scan_log = <<>>
  /\ alloc_via = [t \in Threads |-> NULL]

\* ---------------------------------------------------------------- helpers
FrameTable == <<free_frames, allocated_frames, page, pinned>>
ScanObs == <<scan_start, scan_log>>

\* ------------------------------------------------------------ the lock
\* lock_acquire (&frame_table_lock) blocks while another thread holds the
\* lock.  A blocked caller changes nothing, so a call is taken up at the
\* moment it gets the lock.
frame_lock_free == frame_table_lock = NULL

\* ------------------------------------------------- entering a function
frame_alloc_enter(t) ==
  /\ UNCHANGED <<dvars, ovars>>
  /\ ~panicked /\ fpc[t] = "idle" /\ frame_lock_free
  /\ frame_table_lock' = t
  /\ fpc' = [fpc EXCEPT ![t] = "alloc_choose"]
  /\ UNCHANGED <<FrameTable, panicked, farg, fframe, fe,
                 owned, guarded, last_evict, ScanObs, alloc_via>>

frame_free_enter(t, f) ==
  /\ UNCHANGED <<dvars, ovars>>
  /\ ~panicked /\ fpc[t] = "idle" /\ frame_lock_free
  /\ frame_table_lock' = t
  /\ fpc' = [fpc EXCEPT ![t] = "free_reset"]
  /\ farg' = [farg EXCEPT ![t] = f]
  /\ UNCHANGED <<FrameTable, panicked, fframe, fe,
                 owned, guarded, last_evict, ScanObs, alloc_via>>

frame_pin_enter(t, f) ==
  /\ UNCHANGED <<dvars, ovars>>
  /\ ~panicked /\ fpc[t] = "idle" /\ frame_lock_free
  /\ frame_table_lock' = t
  /\ fpc' = [fpc EXCEPT ![t] = "pin_set"]
  /\ farg' = [farg EXCEPT ![t] = f]
  /\ UNCHANGED <<FrameTable, panicked, fframe, fe,
                 owned, guarded, last_evict, ScanObs, alloc_via>>

frame_unpin_enter(t, f) ==
  /\ UNCHANGED <<dvars, ovars>>
  /\ ~panicked /\ fpc[t] = "idle" /\ frame_lock_free
  /\ frame_table_lock' = t
  /\ fpc' = [fpc EXCEPT ![t] = "unpin_set"]
  /\ farg' = [farg EXCEPT ![t] = f]
  /\ UNCHANGED <<FrameTable, panicked, fframe, fe,
                 owned, guarded, last_evict, ScanObs, alloc_via>>

\* lock_release (&frame_table_lock) and return to the caller.  The frame
\* frame_alloc returns is from then on its caller's to wire a page into.
frame_lock_release(t) ==
  /\ UNCHANGED <<dvars, ovars>>
  /\ ~panicked
  /\ fpc[t] \in {"alloc_release", "free_release", "pin_release", "unpin_release"}
  /\ frame_table_lock = t
  /\ frame_table_lock' = NULL
  /\ fpc' = [fpc EXCEPT ![t] = "idle"]
  /\ owned' = IF fpc[t] = "alloc_release"
              THEN [owned EXCEPT ![fframe[t]] = TRUE] ELSE owned
  /\ farg' = [farg EXCEPT ![t] = NULL]
  /\ fframe' = [fframe EXCEPT ![t] = NULL]
  /\ fe' = [fe EXCEPT ![t] = 0]
  /\ alloc_via' = [alloc_via EXCEPT ![t] = NULL]
  /\ last_evict' = NoEvict
  /\ scan_start' = <<>>
  /\ scan_log' = <<>>
  /\ UNCHANGED <<FrameTable, panicked, guarded>>

\* ------------------------------------------------------------ frame_free
\* frame->page = NULL; frame->pinned = false;
frame_free_page(f) == [page EXCEPT ![f] = NULL]
frame_free_pinned(f) == [pinned EXCEPT ![f] = FALSE]

frame_free_reset(t) ==
  /\ UNCHANGED <<dvars, ovars>>
  /\ ~panicked /\ fpc[t] = "free_reset"
  /\ page' = frame_free_page(farg[t])
  /\ pinned' = frame_free_pinned(farg[t])
  /\ owned' = [owned EXCEPT ![farg[t]] = FALSE]
  /\ guarded' = [guarded EXCEPT ![farg[t]] = FALSE]
  /\ fpc' = [fpc EXCEPT ![t] = "free_remove"]
  /\ UNCHANGED <<free_frames, allocated_frames, frame_table_lock, panicked,
                 farg, fframe, fe, last_evict, ScanObs, alloc_via>>

\* list_remove (&frame->elem): the frame leaves the list it is on.
frame_free_remove(t) ==
  /\ UNCHANGED <<dvars, ovars>>
  /\ ~panicked /\ fpc[t] = "free_remove"
  /\ free_frames' = list_remove(free_frames, farg[t])
  /\ allocated_frames' = list_remove(allocated_frames, farg[t])
  /\ fpc' = [fpc EXCEPT ![t] = "free_push"]
  /\ UNCHANGED <<page, pinned, frame_table_lock, panicked, farg, fframe, fe,
                 owned, guarded, last_evict, ScanObs, alloc_via>>

\* list_push_back (&ft.free_frames, &frame->elem);
frame_free_push(t) ==
  /\ UNCHANGED <<dvars, ovars>>
  /\ ~panicked /\ fpc[t] = "free_push"
  /\ free_frames' = list_push_back(free_frames, farg[t])
  /\ fpc' = [fpc EXCEPT ![t] = "free_release"]
  /\ UNCHANGED <<allocated_frames, page, pinned, frame_table_lock, panicked,
                 farg, fframe, fe, owned, guarded, last_evict, ScanObs,
                 alloc_via>>

\* ----------------------------------------------- frame_pin / frame_unpin
frame_pin_pinned(f) == [pinned EXCEPT ![f] = TRUE]

frame_pin_set(t) ==
  /\ UNCHANGED <<dvars, ovars>>
  /\ ~panicked /\ fpc[t] = "pin_set"
  /\ pinned' = frame_pin_pinned(farg[t])
  /\ fpc' = [fpc EXCEPT ![t] = "pin_release"]
  /\ UNCHANGED <<free_frames, allocated_frames, page, frame_table_lock,
                 panicked, farg, fframe, fe, owned, guarded, last_evict,
                 ScanObs, alloc_via>>

frame_unpin_pinned(f) == [pinned EXCEPT ![f] = FALSE]

frame_unpin_set(t) ==
  /\ UNCHANGED <<dvars, ovars>>
  /\ ~panicked /\ fpc[t] = "unpin_set"
  /\ pinned' = frame_unpin_pinned(farg[t])
  /\ guarded' = [guarded EXCEPT ![farg[t]] = FALSE]
  /\ fpc' = [fpc EXCEPT ![t] = "unpin_release"]
  /\ UNCHANGED <<free_frames, allocated_frames, page, frame_table_lock,
                 panicked, farg, fframe, fe, owned, last_evict, ScanObs,
                 alloc_via>>

\* ------------------------------------------------------------ frame_evict
\* frame_evict (frame), with OK the answer page_evict gives if it is asked.
\* The result holds the return value, the table state it leaves, and
\* whether page_evict was called.
frame_evict_pagefirst(f, ok) ==
  IF pinned[f]
  THEN [ret |-> FALSE, page |-> page, allocated |-> allocated_frames,
        called |-> FALSE]
  ELSE IF page[f] # NULL /\ ~ok
  THEN [ret |-> FALSE, page |-> [page EXCEPT ![f] = NULL],
        allocated |-> allocated_frames, called |-> TRUE]
  ELSE [ret |-> TRUE, page |-> [page EXCEPT ![f] = NULL],
        allocated |-> list_remove(allocated_frames, f),
        called |-> page[f] # NULL]

frame_evict_nopincheck(f, ok) ==
  IF page[f] # NULL /\ ~ok
  THEN [ret |-> FALSE, page |-> page, allocated |-> allocated_frames,
        called |-> TRUE]
  ELSE [ret |-> TRUE, page |-> [page EXCEPT ![f] = NULL],
        allocated |-> list_remove(allocated_frames, f),
        called |-> page[f] # NULL]

frame_evict(f, ok) ==
  IF pinned[f]
  THEN [ret |-> FALSE, page |-> page, allocated |-> allocated_frames,
        called |-> FALSE]
  ELSE IF page[f] # NULL /\ ~ok
  THEN [ret |-> FALSE, page |-> page, allocated |-> allocated_frames,
        called |-> TRUE]
  ELSE [ret |-> TRUE, page |-> [page EXCEPT ![f] = NULL],
        allocated |-> list_remove(allocated_frames, f),
        called |-> page[f] # NULL]

\* ------------------------------------------- frame_alloc, pick_and_evict
\* if (!list_empty (&ft.free_frames)) frame = list_pop_back (...);
\* else frame = frame_pick_and_evict ();   (entered: asserts, e = list_begin)
scan_begin_second(l) == 2
scan_begin(l) == 1

frame_alloc_choose(t) ==
  /\ UNCHANGED <<dvars, ovars>>
  /\ ~panicked /\ fpc[t] = "alloc_choose"
  /\ IF free_frames # <<>>
     THEN /\ fframe' = [fframe EXCEPT ![t] = list_back(free_frames)]
          /\ free_frames' = list_without_back(free_frames)
          /\ alloc_via' = [alloc_via EXCEPT ![t] = "free"]
          /\ fpc' = [fpc EXCEPT ![t] = "alloc_pin"]
          /\ UNCHANGED <<fe, panicked, ScanObs>>
     ELSE /\ fframe' = [fframe EXCEPT ![t] = NULL]
          /\ alloc_via' = [alloc_via EXCEPT ![t] = "evict"]
          /\ fe' = [fe EXCEPT ![t] = scan_begin(allocated_frames)]
          /\ scan_start' = allocated_frames
          /\ scan_log' = <<>>
          \* ASSERT (!list_empty (&ft.allocated_frames)) panics the kernel
          /\ panicked' = (allocated_frames = <<>>)
          /\ fpc' = [fpc EXCEPT ![t] = IF allocated_frames = <<>>
                                         THEN "panic" ELSE "scan"]
          /\ UNCHANGED free_frames
  /\ UNCHANGED <<allocated_frames, page, pinned, frame_table_lock, farg,
                 owned, guarded, last_evict>>

\* One iteration of the for loop of frame_pick_and_evict, or its exit.
frame_pick_step(t) ==
  /\ UNCHANGED <<dvars, ovars>>
  /\ ~panicked /\ fpc[t] = "scan"
  /\ IF fe[t] > Len(allocated_frames)
     THEN \* e == list_end: frame == NULL, PANIC
          /\ panicked' = TRUE
          /\ fpc' = [fpc EXCEPT ![t] = "panic"]
          /\ UNCHANGED <<FrameTable, fframe, fe, owned, last_evict, ScanObs>>
     ELSE \E ok \in BOOLEAN :
          LET f == allocated_frames[fe[t]]
              r == frame_evict(f, ok)
              obs == [frame |-> f, was_pinned |-> pinned[f],
                      had_page |-> page[f], called |-> r.called,
                      accepts |-> ok, ret |-> r.ret]
          IN /\ (r.called \/ ok)  \* the answer matters only when asked
             /\ page' = r.page
             /\ allocated_frames' = r.allocated
             /\ last_evict' = obs
             /\ scan_log' = Append(scan_log, obs)
             /\ IF r.ret
                THEN /\ fframe' = [fframe EXCEPT ![t] = f]
                     /\ fpc' = [fpc EXCEPT ![t] = "alloc_pin"]
                     /\ owned' = [owned EXCEPT ![f] = FALSE]
                     /\ UNCHANGED fe
                ELSE /\ fframe' = [fframe EXCEPT ![t] = NULL]
                     /\ fe' = [fe EXCEPT ![t] = fe[t] + 1]
                     /\ UNCHANGED <<fpc, owned>>
             /\ UNCHANGED <<free_frames, pinned, panicked, scan_start>>
  /\ UNCHANGED <<frame_table_lock, farg, guarded, alloc_via>>

\* frame->pinned = true;
frame_alloc_keep_pinned(f) == pinned
frame_alloc_pinned(f) == [pinned EXCEPT ![f] = TRUE]

frame_alloc_pin(t) ==
  /\ UNCHANGED <<dvars, ovars>>
  /\ ~panicked /\ fpc[t] = "alloc_pin"
  /\ pinned' = frame_alloc_pinned(fframe[t])
  /\ guarded' = [guarded EXCEPT ![fframe[t]] = TRUE]
  /\ fpc' = [fpc EXCEPT ![t] = "alloc_push"]
  /\ UNCHANGED <<free_frames, allocated_frames, page, frame_table_lock,
                 panicked, farg, fframe, fe, owned, last_evict, ScanObs,
                 alloc_via>>

\* list_push_back (&ft.allocated_frames, &frame->elem);
frame_alloc_no_insert(l, f) == l
frame_alloc_insert(l, f) == list_push_back(l, f)

frame_alloc_push(t) ==
  /\ UNCHANGED <<dvars, ovars>>
  /\ ~panicked /\ fpc[t] = "alloc_push"
  /\ allocated_frames' = frame_alloc_insert(allocated_frames, fframe[t])
  /\ fpc' = [fpc EXCEPT ![t] = "alloc_release"]
  /\ UNCHANGED <<free_frames, page, pinned, frame_table_lock, panicked,
                 farg, fframe, fe, owned, guarded, last_evict, ScanObs,
                 alloc_via>>

\* ------------------------------------------------------------ page layer
\* The caller of frame_alloc wires a virtual page into the frame it was
\* returned (frame->page = page), without the table lock.  A page is
\* installed in one frame at most; which page it is does not matter, so
\* the first page not installed anywhere is taken.
FreePages == {p \in Pages : \A g \in Frames : page[g] # p}

page_install(f) ==
  /\ UNCHANGED <<dvars, ovars>>
  /\ ~panicked
  /\ owned[f] /\ page[f] = NULL
  /\ FreePages # {}
  /\ page' = [page EXCEPT ![f] = IF "p1" \in FreePages THEN "p1"
                                ELSE CHOOSE p \in FreePages : TRUE]
  /\ UNCHANGED <<free_frames, allocated_frames, pinned, frame_table_lock,
                 panicked, fpc, farg, fframe, fe, owned, guarded, last_evict,
                 ScanObs, alloc_via>>

\* ------------------------------------------------------------------ Next
FrameNext ==
  \/ \E t \in Threads : frame_alloc_enter(t)
  \/ \E t \in Threads, f \in Frames : frame_free_enter(t, f)
  \/ \E t \in Threads, f \in Frames : frame_pin_enter(t, f)
  \/ \E t \in Threads, f \in Frames : frame_unpin_enter(t, f)
  \/ \E t \in Threads : frame_lock_release(t)
  \/ \E t \in Threads : frame_free_reset(t)
  \/ \E t \in Threads : frame_free_remove(t)
  \/ \E t \in Threads : frame_free_push(t)
  \/ \E t \in Threads : frame_pin_set(t)
  \/ \E t \in Threads : frame_unpin_set(t)
  \/ \E t \in Threads : frame_alloc_choose(t)
  \/ \E t \in Threads : frame_pick_step(t)
  \/ \E t \in Threads : frame_alloc_pin(t)
  \/ \E t \in Threads : frame_alloc_push(t)
  \/ \E f \in Frames : page_install(f)


\* =========================================================== directories
ROOT_DIR_SECTOR == 1
\* A null struct inode * / struct dir *.
NoInode == 0
\* Sectors holding an inode: the root directory, one more directory inode
\* and one file inode (inode_create has written them).
Sectors == {1, 2, 3}
DirSectors == {1, 2}
\* inode_isdir
inode_isdir(s) == s \in DOMAIN ientries

\* ------------------------------------------------------------------ names
\* A name is the sequence of its characters, without the terminating NUL.
Repeat(c, n) == [i \in 1..n |-> c]
EmptyName == <<>>
DotName == <<".">>
DotDotName == <<".", ".">>
ExactName == Repeat("b", NAME_MAX)       \* exactly NAME_MAX bytes
LongName == Repeat("b", NAME_MAX + 1)    \* one byte too long
\* Names passed to dir_add: empty, exactly NAME_MAX bytes, one byte more.
Names == {EmptyName, ExactName, LongName}

Min(a, b) == IF a <= b THEN a ELSE b
\* strlen
strlen(name) == Len(name)
\* strlcpy (dst, src, size): at most size - 1 characters are copied.
strlcpy(src, size) == SubSeq(src, 1, Min(Len(src), size - 1))
\* sizeof e.name
sizeof_name == NAME_MAX + 1

\* ----------------------------------------------------------------- entries
Entry(sector, name, in_use) ==
  [inode_sector |-> sector, name |-> name, in_use |-> in_use]

\* A directory as mkdir leaves it: slot 0 is ".", slot 1 is "..".
FreshDir(s) == <<Entry(s, DotName, TRUE), Entry(ROOT_DIR_SECTOR, DotDotName, TRUE)>>

\* lookup (dir, name, &e, &ofs): the first in-use entry named NAME, as its
\* slot number (1-based), or 0 when there is none.
lookup_any_slot(entries, name) ==
  LET hits == {i \in 1..Len(entries) : entries[i].name = name}
  IN IF hits = {} THEN 0 ELSE CHOOSE i \in hits : \A j \in hits : i <= j

lookup(entries, name) ==
  LET hits == {i \in 1..Len(entries) :
                 entries[i].in_use /\ entries[i].name = name}
  IN IF hits = {} THEN 0 ELSE CHOOSE i \in hits : \A j \in hits : i <= j

\* dir_add's scan: the first slot not in use, or the slot at end of file.
free_slot(entries) ==
  LET free == {i \in 1..Len(entries) : ~entries[i].in_use}
  IN IF free = {} THEN Len(entries) + 1
     ELSE CHOOSE i \in free : \A j \in free : i <= j

\* inode_write_at (dir->inode, &e, sizeof e, ofs): slot OFS is overwritten,
\* or appended when OFS is the end of file.
inode_write_at(entries, ofs, e) ==
  IF ofs = Len(entries) + 1 THEN Append(entries, e)
  ELSE [entries EXCEPT ![ofs] = e]

\* dir_empty's scan: no in-use entry other than "." and "..".
dir_empty_scan(entries) ==
  \A i \in 1..Len(entries) :
    ~(entries[i].in_use /\ entries[i].name # DotName
                        /\ entries[i].name # DotDotName)

\* ------------------------------------------------------------- inode layer
\* inode_open / inode_reopen: one more opener.
inode_opened(s) == [iopen EXCEPT ![s] = @ + 1]
\* inode_close: one opener less; the last close of a removed inode frees
\* it, and the sector then holds a newly created inode again.
inode_closed(s) == [iopen EXCEPT ![s] = @ - 1]
inode_freed(s) == iopen[s] = 1 /\ iremoved[s]
removed_after_close(s) ==
  IF inode_freed(s) THEN [iremoved EXCEPT ![s] = FALSE] ELSE iremoved
entries_after_close(s) ==
  IF inode_freed(s) /\ inode_isdir(s)
  THEN [ientries EXCEPT ![s] = FreshDir(s)] ELSE ientries

\* ----------------------------------------------------------------- locals
NoLoc == [name |-> <<>>, sector |-> NoInode, ofs |-> 0, inode |-> NoInode,
          dir_removed |-> NoInode, success |-> FALSE,
          chk_count |-> 0, chk_empty |-> FALSE]

DirInit ==
  /\ ientries = [s \in DirSectors |-> FreshDir(s)]
  /\ iopen = [s \in Sectors |-> 0]
  /\ iremoved = [s \in Sectors |-> FALSE]
  /\ ilock = [s \in DirSectors |-> NULL]
  /\ dh = [t \in Threads |-> NoInode]
  /\ dres = [t \in Threads |-> NoInode]
  /\ dpc = [t \in Threads |-> "idle"]
  /\ dloc = [t \in Threads |-> NoLoc]
  /\ dpos = [t \in Threads |-> 0]

\* ------------------------------------------------------ directory handles
Idle(t) == dpc[t] = "idle"
InodeLayer == <<ientries, iopen, iremoved>>

\* dir_open: dir->pos = 2 * sizeof (struct dir_entry), counted in entries.
dir_open_pos == 2

\* dir_open_root: dir_open (inode_open (ROOT_DIR_SECTOR))
dir_open_root(t) ==
  /\ UNCHANGED <<fvars, ovars>>
  /\ dpos' = [dpos EXCEPT ![t] = dir_open_pos]
  /\ Idle(t) /\ dh[t] = NoInode
  /\ iopen' = inode_opened(ROOT_DIR_SECTOR)
  /\ dh' = [dh EXCEPT ![t] = ROOT_DIR_SECTOR]
  /\ UNCHANGED <<ientries, iremoved, ilock, dres, dpc, dloc>>

\* dir_reopen (dir), DIR being a handle of another thread
dir_reopen(t, u) ==
  /\ UNCHANGED <<fvars, ovars>>
  /\ dpos' = [dpos EXCEPT ![t] = dir_open_pos]
  /\ Idle(t) /\ dh[t] = NoInode /\ u # t /\ dh[u] # NoInode
  /\ iopen' = inode_opened(dh[u])
  /\ dh' = [dh EXCEPT ![t] = dh[u]]
  /\ UNCHANGED <<ientries, iremoved, ilock, dres, dpc, dloc>>

\* dir_close (dir): inode_close (dir->inode); free (dir)
dir_close(t) ==
  /\ UNCHANGED <<fvars, ovars>>
  /\ dpos' = [dpos EXCEPT ![t] = 0]
  /\ Idle(t) /\ dh[t] # NoInode
  /\ iopen' = inode_closed(dh[t])
  /\ iremoved' = removed_after_close(dh[t])
  /\ ientries' = entries_after_close(dh[t])
  /\ dh' = [dh EXCEPT ![t] = NoInode]
  /\ UNCHANGED <<ilock, dres, dpc, dloc>>

\* --------------------------------------------------------------- dir_lookup
\* lookup (dir, name, &e, NULL): the scan, with E copied out.  dir_lookup
\* takes no lock itself.
dir_lookup_scan(t, n) ==
  /\ UNCHANGED <<fvars, ovars, dpos>>
  /\ Idle(t) /\ dh[t] # NoInode
  /\ LET ofs == lookup(ientries[dh[t]], n)
     IN dloc' = [dloc EXCEPT ![t] =
                   [NoLoc EXCEPT !.name = n, !.ofs = ofs,
                      !.sector = IF ofs = 0 THEN NoInode
                                 ELSE ientries[dh[t]][ofs].inode_sector]]
  /\ dpc' = [dpc EXCEPT ![t] = "lk_open"]
  /\ UNCHANGED <<InodeLayer, ilock, dh, dres>>

\* *inode = inode_open (e.inode_sector), or NULL; return *inode != NULL
dir_lookup_open(t) ==
  /\ UNCHANGED <<fvars, ovars, dpos>>
  /\ dpc[t] = "lk_open"
  /\ IF dloc[t].ofs # 0
     THEN /\ iopen' = inode_opened(dloc[t].sector)
          /\ dres' = [dres EXCEPT ![t] = dloc[t].sector]
          /\ dpc' = [dpc EXCEPT ![t] = "lk_found"]
     ELSE /\ dres' = [dres EXCEPT ![t] = NoInode]
          /\ dpc' = [dpc EXCEPT ![t] = "idle"]
          /\ UNCHANGED iopen
  /\ dloc' = [dloc EXCEPT ![t] = NoLoc]
  /\ UNCHANGED <<ientries, iremoved, ilock, dh>>

\* The caller of dir_lookup closes *INODE ...
inode_close_found(t) ==
  /\ UNCHANGED <<fvars, ovars, dpos>>
  /\ dpc[t] = "lk_found"
  /\ iopen' = inode_closed(dres[t])
  /\ iremoved' = removed_after_close(dres[t])
  /\ ientries' = entries_after_close(dres[t])
  /\ dres' = [dres EXCEPT ![t] = NoInode]
  /\ dpc' = [dpc EXCEPT ![t] = "idle"]
  /\ UNCHANGED <<ilock, dh, dloc>>

\* ... or moves on to it as dir_open_dirs does: dir_close (parent_dir);
\* parent_dir = dir_open (curr_inode).  dir_open makes a directory inode
\* the new handle; it closes any other inode and returns NULL.
dir_open_found(t) ==
  /\ UNCHANGED <<fvars, ovars>>
  /\ dpos' = [dpos EXCEPT ![t] = IF inode_isdir(dres[t]) THEN dir_open_pos ELSE 0]
  /\ dpc[t] = "lk_found"
  /\ LET old == dh[t]
         new == dres[t]
         count1 == inode_closed(old)
         removed1 == removed_after_close(old)
         entries1 == entries_after_close(old)
     IN IF inode_isdir(new)
        THEN /\ dh' = [dh EXCEPT ![t] = new]
             /\ iopen' = count1
             /\ iremoved' = removed1
             /\ ientries' = entries1
        ELSE /\ dh' = [dh EXCEPT ![t] = NoInode]
             \* the file inode is not a directory, so it never holds entries
             /\ iopen' = [count1 EXCEPT ![new] = @ - 1]
             /\ iremoved' = IF count1[new] = 1
                            THEN [removed1 EXCEPT ![new] = FALSE] ELSE removed1
             /\ ientries' = entries1
  /\ dres' = [dres EXCEPT ![t] = NoInode]
  /\ dpc' = [dpc EXCEPT ![t] = "idle"]
  /\ UNCHANGED <<ilock, dloc>>

\* ------------------------------------------------------------------ dir_add
\* lock_acquire (dir->lock) blocks while another thread holds the lock; a
\* blocked caller changes nothing, so a call is taken up when it gets it.
dir_lock_never_blocks(s) == TRUE
dir_lock_free(s) == ilock[s] = NULL

\* *name == '\0' || strlen (name) > NAME_MAX
name_invalid_off_by_one(name) == name = EmptyName \/ strlen(name) >= NAME_MAX
name_invalid(name) == name = EmptyName \/ strlen(name) > NAME_MAX

\* The directory has a slot left for one more entry.
HasRoom(s) == free_slot(ientries[s]) <= MaxSlots
\* The sector of a newly created inode: no entry other than "." and ".."
\* refers to it yet.
Linked(sec) ==
  \E s \in DirSectors : \E i \in 1..Len(ientries[s]) :
    /\ ientries[s][i].in_use /\ ientries[s][i].inode_sector = sec
    /\ ientries[s][i].name # DotName /\ ientries[s][i].name # DotDotName
NewSectors == {sec \in Sectors : sec # ROOT_DIR_SECTOR /\ ~Linked(sec)}

\* dir_add up to the lookup: the validity check (return false), then
\* lock_acquire (dir->lock) and `if (lookup (dir, name, NULL, NULL)) goto done'.
dir_add_enter(t, n, sec) ==
  /\ UNCHANGED <<fvars, ovars, dpos>>
  /\ Idle(t) /\ dh[t] # NoInode
  /\ IF name_invalid(n)
     THEN /\ dpc' = [dpc EXCEPT ![t] = "add_done"]
          /\ UNCHANGED ilock
     ELSE /\ dir_lock_free(dh[t]) /\ HasRoom(dh[t])
          /\ ilock' = [ilock EXCEPT ![dh[t]] = t]
          /\ dpc' = [dpc EXCEPT ![t] =
                       IF lookup(ientries[dh[t]], n) # 0
                       THEN "add_done" ELSE "add_write"]
  /\ dloc' = [dloc EXCEPT ![t] = [NoLoc EXCEPT !.name = n, !.sector = sec]]
  /\ UNCHANGED <<InodeLayer, dh, dres>>

\* The scan for a free slot and the write of the new entry.
dir_add_write(t) ==
  /\ UNCHANGED <<fvars, ovars, dpos>>
  /\ dpc[t] = "add_write"
  /\ LET ofs == free_slot(ientries[dh[t]])
         e == Entry(dloc[t].sector, strlcpy(dloc[t].name, sizeof_name), TRUE)
     IN /\ ientries' = [ientries EXCEPT
                          ![dh[t]] = inode_write_at(ientries[dh[t]], ofs, e)]
        /\ dloc' = [dloc EXCEPT ![t].ofs = ofs, ![t].success = TRUE]
  /\ dpc' = [dpc EXCEPT ![t] = "add_done"]
  /\ UNCHANGED <<iopen, iremoved, ilock, dh, dres>>

\* done: if (lock_held_by_current_thread (dir->lock)) lock_release (...);
\* return success;
dir_add_done(t) ==
  /\ UNCHANGED <<fvars, ovars, dpos>>
  /\ dpc[t] = "add_done"
  /\ ilock' = IF ilock[dh[t]] = t THEN [ilock EXCEPT ![dh[t]] = NULL]
              ELSE ilock
  /\ dpc' = [dpc EXCEPT ![t] = "idle"]
  /\ dloc' = [dloc EXCEPT ![t] = NoLoc]
  /\ UNCHANGED <<InodeLayer, dh, dres>>

\* --------------------------------------------------------------- dir_remove
\* lock_acquire (dir->lock); if (!lookup (dir, name, &e, &ofs)) goto done;
dir_remove_enter(t, n) ==
  /\ UNCHANGED <<fvars, ovars, dpos>>
  /\ Idle(t) /\ dh[t] # NoInode
  /\ dir_lock_free(dh[t])
  /\ ilock' = [ilock EXCEPT ![dh[t]] = t]
  /\ LET ofs == lookup(ientries[dh[t]], n)
     IN IF ofs = 0
        THEN /\ dpc' = [dpc EXCEPT ![t] = "rm_done"]
             /\ dloc' = [dloc EXCEPT ![t] = [NoLoc EXCEPT !.name = n]]
        ELSE /\ dpc' = [dpc EXCEPT ![t] = "rm_open"]
             /\ dloc' = [dloc EXCEPT ![t] =
                           [NoLoc EXCEPT !.name = n, !.ofs = ofs,
                              !.sector = ientries[dh[t]][ofs].inode_sector]]
  /\ UNCHANGED <<InodeLayer, dh, dres>>

\* inode_open_count (inode) > 1, INODE having just been opened
open_elsewhere_never(count) == FALSE
open_elsewhere_twice(count) == count > 2
open_elsewhere(count) == count > 1

\* inode = inode_open (e.inode_sector); for a directory inode,
\* dir_removed = dir_open (inode) and
\* if ((inode_open_count (inode) > 1) || ...) goto done;
dir_remove_open(t) ==
  /\ UNCHANGED <<fvars, ovars, dpos>>
  /\ dpc[t] = "rm_open"
  /\ iopen' = inode_opened(dloc[t].sector)
  /\ IF inode_isdir(dloc[t].sector)
     THEN /\ dloc' = [dloc EXCEPT ![t].inode = dloc[t].sector,
                                  ![t].dir_removed = dloc[t].sector,
                                  ![t].chk_count = iopen'[dloc[t].sector]]
          /\ dpc' = [dpc EXCEPT ![t] =
                       IF open_elsewhere(iopen'[dloc[t].sector])
                       THEN "rm_done" ELSE "rm_empty"]
     ELSE /\ dloc' = [dloc EXCEPT ![t].inode = dloc[t].sector]
          /\ dpc' = [dpc EXCEPT ![t] = "rm_erase"]
  /\ UNCHANGED <<ientries, iremoved, ilock, dh, dres>>

\* ... || !dir_empty (dir_removed): dir_empty takes the lock of the
\* directory it scans and releases it before it returns.
dir_remove_empty(t) ==
  /\ UNCHANGED <<fvars, ovars, dpos>>
  /\ dpc[t] = "rm_empty"
  /\ dir_lock_free(dloc[t].dir_removed)
  /\ LET empty == dir_empty_scan(ientries[dloc[t].dir_removed])
     IN /\ dloc' = [dloc EXCEPT ![t].chk_empty = empty]
        /\ dpc' = [dpc EXCEPT ![t] = IF empty THEN "rm_erase" ELSE "rm_done"]
  /\ UNCHANGED <<InodeLayer, ilock, dh, dres>>

\* e.in_use = false; inode_write_at (dir->inode, &e, sizeof e, ofs);
\* inode_remove (inode); success = true;
dir_remove_erase(t) ==
  /\ UNCHANGED <<fvars, ovars, dpos>>
  /\ dpc[t] = "rm_erase"
  /\ LET e == Entry(dloc[t].sector, dloc[t].name, FALSE)
     IN ientries' = [ientries EXCEPT
                       ![dh[t]] = inode_write_at(ientries[dh[t]], dloc[t].ofs, e)]
  /\ iremoved' = [iremoved EXCEPT ![dloc[t].inode] = TRUE]
  /\ dloc' = [dloc EXCEPT ![t].success = TRUE]
  /\ dpc' = [dpc EXCEPT ![t] = "rm_done"]
  /\ UNCHANGED <<iopen, ilock, dh, dres>>

\* done: release the lock if held; dir_close (dir_removed), or else
\* inode_close (inode) if an inode was opened; return success;
dir_remove_done(t) ==
  /\ UNCHANGED <<fvars, ovars, dpos>>
  /\ dpc[t] = "rm_done"
  /\ dloc[t].inode # NoInode => iopen[dloc[t].inode] > 0
  /\ ilock' = IF ilock[dh[t]] = t THEN [ilock EXCEPT ![dh[t]] = NULL]
              ELSE ilock
  /\ IF dloc[t].inode # NoInode
     THEN /\ iopen' = inode_closed(dloc[t].inode)
          /\ iremoved' = removed_after_close(dloc[t].inode)
          /\ ientries' = entries_after_close(dloc[t].inode)
     ELSE UNCHANGED InodeLayer
  /\ dpc' = [dpc EXCEPT ![t] = "idle"]
  /\ dloc' = [dloc EXCEPT ![t] = NoLoc]
  /\ UNCHANGED <<dh, dres>>

\* dir_removed = dir_open (inode) with calloc returning NULL: dir_open
\* closes the inode it was given and returns NULL, and dir_remove goes to
\* `done' with INODE still pointing to it.
dir_remove_open_nomem(t) ==
  /\ UNCHANGED <<fvars, ovars, dpos>>
  /\ dpc[t] = "rm_open"
  /\ inode_isdir(dloc[t].sector)
  /\ dloc' = [dloc EXCEPT ![t].inode = dloc[t].sector]
  /\ dpc' = [dpc EXCEPT ![t] = "rm_done"]
  /\ UNCHANGED <<InodeLayer, ilock, dh, dres>>

\* done: ... else if (inode != NULL) inode_close (inode), INODE having been
\* freed by the close in dir_open: the call reads and writes freed memory.
\* Either nothing that is in use changes and the call returns, or the
\* kernel stops there.
dir_remove_done_freed(t, returns) ==
  /\ UNCHANGED <<fvars, ovars, dpos>>
  /\ dpc[t] = "rm_done"
  /\ dloc[t].inode # NoInode /\ iopen[dloc[t].inode] = 0
  /\ ilock' = IF ilock[dh[t]] = t THEN [ilock EXCEPT ![dh[t]] = NULL]
              ELSE ilock
  /\ dpc' = [dpc EXCEPT ![t] = IF returns THEN "idle" ELSE "panic"]
  /\ dloc' = [dloc EXCEPT ![t] = IF returns THEN NoLoc ELSE @]
  /\ UNCHANGED <<InodeLayer, dh, dres>>

\* -------------------------------------------------------------------- Next
\* Names looked up and removed: the names an entry can carry.
EntryNames == {DotDotName, ExactName}

DirNext ==
  \/ \E t \in Threads : dir_open_root(t)
  \/ \E t \in Threads, u \in Threads : dir_reopen(t, u)
  \/ \E t \in Threads : dir_close(t)
  \/ \E t \in Threads : dir_open_found(t)
  \/ \E t \in Threads : inode_close_found(t)
  \/ \E t \in Threads, n \in EntryNames : dir_lookup_scan(t, n)
  \/ \E t \in Threads : dir_lookup_open(t)
  \/ \E t \in Threads, n \in Names : \E sec \in NewSectors : dir_add_enter(t, n, sec)
  \/ \E t \in Threads : dir_add_write(t)
  \/ \E t \in Threads : dir_add_done(t)
  \/ \E t \in Threads, n \in EntryNames : dir_remove_enter(t, n)
  \/ \E t \in Threads : dir_remove_open(t)
  \/ \E t \in Threads : dir_remove_empty(t)
  \/ \E t \in Threads : dir_remove_erase(t)
  \/ \E t \in Threads : dir_remove_done(t)

\* --------------------------------------------------------------- dir_readdir
\* A name of fewer than NAME_MAX bytes.
ShortName == Repeat("b", 1)
\* The names the readers' directory is filled with.
ReadNames == {ShortName, ExactName}

\* The slots after POS that hold an entry in use.
in_use_after(entries, pos) ==
  {i \in 1..Len(entries) : i > pos /\ entries[i].in_use}

\* dir_readdir (dir, name): under dir->lock, entries are read from dir->pos
\* on, dir->pos moving past each one read, until one is in use (its name is
\* copied out, return true) or inode_read_at reaches the end (return false).
dir_readdir(t) ==
  /\ UNCHANGED <<fvars, pvars, cvars>>
  /\ Idle(t) /\ dh[t] # NoInode
  /\ dir_lock_free(dh[t])
  /\ LET entries == ientries[dh[t]]
         found == in_use_after(entries, dpos[t])
     IN IF found # {}
        THEN LET i == CHOOSE j \in found : \A k \in found : j <= k
             IN /\ dpos' = [dpos EXCEPT ![t] = i]
                /\ rd_names' = [rd_names EXCEPT ![t] =
                                  Append(@, strlcpy(entries[i].name, NAME_MAX + 1))]
                /\ rd_ret' = [rd_ret EXCEPT ![t] = "true"]
        ELSE /\ dpos' = [dpos EXCEPT ![t] =
                           IF @ < Len(entries) THEN Len(entries) ELSE @]
             /\ rd_ret' = [rd_ret EXCEPT ![t] = "false"]
             /\ UNCHANGED rd_names
  /\ UNCHANGED <<ientries, iopen, iremoved, ilock, dh, dres, dpc, dloc>>

\* ============================================================ buffer cache
\* enum cache_state
CACHE_READY == "CACHE_READY"
CACHE_PENDING_WRITE == "CACHE_PENDING_WRITE"
CACHE_BEING_WRITTEN == "CACHE_BEING_WRITTEN"
CACHE_BEING_READ == "CACHE_BEING_READ"
CACHE_EVICTED == "CACHE_EVICTED"

Slots == 1..NumSlots
\* Sectors of the block device: one more than the cache has slots.
BlockSectors == 1..(NumSlots + 1)
NoSector == 0
\* A sector's content, as one value.
Data == {0, 1}
\* The threads using the cache: the callers and the read-ahead worker.
ReadAhead == "ra"
CacheThreads == Threads \cup {ReadAhead}

\* struct cache_sector
cache_sector(state, sector_idx, buffer, dirty, accessors) ==
  [state |-> state, sector_idx |-> sector_idx, buffer |-> buffer,
   dirty_bit |-> dirty, num_accessors |-> accessors]

NoReq == [op |-> "none", sector_idx |-> NoSector, slot |-> 0, quiet |-> FALSE]

\* cache_init: every slot is unassigned, nothing in flight.
CacheInit ==
  /\ cache = [i \in Slots |-> cache_sector(CACHE_EVICTED, NoSector, 0, FALSE, 0)]
  /\ block = [b \in BlockSectors |-> 0]
  /\ cio = [i \in Slots |-> {}]
  /\ cpc = [t \in CacheThreads |-> "idle"]
  /\ creq = [t \in CacheThreads |-> NoReq]
  /\ wa_returned = [since |-> FALSE, quiet |-> FALSE]
  /\ cops = 0

CacheFrame == <<fvars, dvars, pvars, rvars>>

\* The slot that holds SECTOR, if any.
SlotsOf(sector) ==
  {i \in Slots : cache[i].state # CACHE_EVICTED /\ cache[i].sector_idx = sector}
MinOf(S) == CHOOSE i \in S : \A j \in S : i <= j

\* An accessor that finds the slot in a non-READY state waits on the
\* slot's condition variable until the in-flight operation has finished.
slot_ready_always(i) == TRUE
slot_ready(i) == cache[i].state = CACHE_READY

\* The device image after the writeback of slot i.
writeback_lost(i) == block
writeback(i) == [block EXCEPT ![cache[i].sector_idx] = cache[i].buffer]

\* Eviction and writeback are disallowed while num_accessors is non-zero.
evictable(i) == slot_ready(i) /\ cache[i].num_accessors = 0

\* cache_io_at_ (sector_idx, buffer, is_metadata, offset, size, is_write,
\* sector_next): the call. The arguments is_write, buffer and sector_next
\* are not looked at before the transfer, and are drawn there.
cache_io_at_(t, sector) ==
  /\ cpc[t] = "idle"
  /\ creq' = [creq EXCEPT ![t] = [NoReq EXCEPT !.op = "io",
                                               !.sector_idx = sector]]
  /\ cpc' = [cpc EXCEPT ![t] = "find"]
  /\ cops < MaxOps /\ cops' = cops + 1
  /\ UNCHANGED <<CacheFrame, cache, block, cio, wa_returned>>

\* The lookup of the sector: a hit on a READY slot makes the thread an
\* accessor; a miss takes an EVICTED slot for the device read, or else
\* picks a victim among the READY slots without accessors (a clean one
\* if there is one): a clean victim becomes EVICTED, a dirty one is
\* written back first.
cache_find(t) ==
  /\ cpc[t] = "find"
  /\ LET hit == SlotsOf(creq[t].sector_idx)
         evicted == {i \in Slots : cache[i].state = CACHE_EVICTED}
         victims == {i \in Slots : evictable(i)}
         clean == {i \in victims : ~cache[i].dirty_bit}
     IN IF hit # {}
        THEN LET i == MinOf(hit)
             IN /\ IF creq[t].op = "ahead"
                   THEN /\ cpc' = [cpc EXCEPT ![t] = "idle"]
                        /\ creq' = [creq EXCEPT ![t] = NoReq]
                        /\ UNCHANGED cache
                   ELSE /\ slot_ready(i)
                        /\ cache' = [cache EXCEPT ![i].num_accessors = @ + 1]
                        /\ creq' = [creq EXCEPT ![t].slot = i]
                        /\ cpc' = [cpc EXCEPT ![t] = "copy"]
                /\ UNCHANGED cio
        ELSE IF evicted # {}
        THEN LET i == MinOf(evicted)
             IN /\ cache' = [cache EXCEPT ![i].state = CACHE_BEING_READ,
                                          ![i].sector_idx = creq[t].sector_idx]
                /\ cio' = [cio EXCEPT ![i] = @ \cup {t}]
                /\ creq' = [creq EXCEPT ![t].slot = i]
                /\ cpc' = [cpc EXCEPT ![t] = "read"]
        ELSE /\ victims # {}
             /\ LET i == MinOf(IF clean # {} THEN clean ELSE victims)
                IN IF cache[i].dirty_bit
                   THEN /\ cache' = [cache EXCEPT ![i].state = CACHE_BEING_WRITTEN]
                        /\ cio' = [cio EXCEPT ![i] = @ \cup {t}]
                        /\ creq' = [creq EXCEPT ![t].slot = i]
                        /\ cpc' = [cpc EXCEPT ![t] = "evict_write"]
                   ELSE /\ cache' = [cache EXCEPT ![i] =
                             cache_sector(CACHE_EVICTED, NoSector, 0, FALSE, 0)]
                        /\ UNCHANGED <<cio, creq, cpc>>
  /\ UNCHANGED <<CacheFrame, block, wa_returned, cops>>

\* The writeback of a dirty victim has completed: the slot is EVICTED.
cache_evict_written(t) ==
  /\ cpc[t] = "evict_write"
  /\ LET i == creq[t].slot
     IN /\ block' = writeback(i)
        /\ cache' = [cache EXCEPT ![i] =
                       cache_sector(CACHE_EVICTED, NoSector, 0, FALSE, 0)]
        /\ cio' = [cio EXCEPT ![i] = @ \ {t}]
  /\ cpc' = [cpc EXCEPT ![t] = "find"]
  /\ UNCHANGED <<CacheFrame, creq, wa_returned, cops>>

\* The device read has completed: the slot returns to READY.
cache_read_done(t) ==
  /\ cpc[t] = "read"
  /\ LET i == creq[t].slot
     IN /\ cache' = [cache EXCEPT ![i].state = CACHE_READY,
                                  ![i].buffer = block[cache[i].sector_idx],
                                  ![i].dirty_bit = FALSE]
        /\ cio' = [cio EXCEPT ![i] = @ \ {t}]
  /\ cpc' = [cpc EXCEPT ![t] = "find"]
  /\ UNCHANGED <<CacheFrame, block, creq, wa_returned, cops>>

\* The transfer between the caller's buffer, which holds DATA, and the
\* slot's: a write marks the dirty bit. Then the read-ahead of sector_next
\* is handed to the worker, and dropped if the worker is busy: the caller
\* never waits for it.
cache_transfer(t, is_write, data, sector_next) ==
  /\ cpc[t] = "copy"
  /\ LET i == creq[t].slot
     IN cache' = IF is_write
                 THEN [cache EXCEPT ![i].buffer = data,
                                    ![i].dirty_bit = TRUE,
                                    ![i].num_accessors = @ - 1]
                 ELSE [cache EXCEPT ![i].num_accessors = @ - 1]
  /\ LET ahead == sector_next # NoSector /\ cpc[ReadAhead] = "idle"
     IN /\ cpc' = [u \in CacheThreads |->
                    IF u = t THEN "idle"
                    ELSE IF u = ReadAhead /\ ahead THEN "find" ELSE cpc[u]]
        /\ creq' = [u \in CacheThreads |->
                     IF u = t THEN NoReq
                     ELSE IF u = ReadAhead /\ ahead
                     THEN [NoReq EXCEPT !.op = "ahead",
                                        !.sector_idx = sector_next]
                     ELSE IF is_write THEN [creq[u] EXCEPT !.quiet = FALSE]
                     ELSE creq[u]]
  /\ wa_returned' = IF is_write THEN [since |-> FALSE, quiet |-> FALSE]
                    ELSE wa_returned
  /\ UNCHANGED <<CacheFrame, block, cio, cops>>

\* cache_io_at (sector_idx, buffer, is_metadata, offset, size, is_write):
\* the transfer of a call with no sector_next.
cache_io_at(t, is_write, data) == cache_transfer(t, is_write, data, NoSector)

\* cache_write_all (void): the slots are flushed one after the other.
cache_write_all(t) ==
  /\ cpc[t] = "idle"
  /\ creq' = [creq EXCEPT ![t] =
                [NoReq EXCEPT !.op = "write_all", !.slot = 1,
                              !.quiet = TRUE]]
  /\ cpc' = [cpc EXCEPT ![t] = "wa"]
  /\ cops < MaxOps /\ cops' = cops + 1
  /\ UNCHANGED <<CacheFrame, cache, block, cio, wa_returned>>

\* The next slot: past the last one the function returns; an unassigned
\* or clean slot is passed over; for a dirty READY slot the flush is
\* requested (PENDING_WRITE); a slot in flight is waited for.
cache_write_all_next(t) ==
  /\ cpc[t] = "wa"
  /\ LET i == creq[t].slot
     IN IF i > NumSlots
        THEN /\ wa_returned' = [since |-> TRUE, quiet |-> creq[t].quiet]
             /\ cpc' = [cpc EXCEPT ![t] = "idle"]
             /\ creq' = [creq EXCEPT ![t] = NoReq]
             /\ UNCHANGED cache
        ELSE IF cache[i].state = CACHE_EVICTED
                  \/ (slot_ready(i) /\ ~cache[i].dirty_bit)
        THEN /\ creq' = [creq EXCEPT ![t].slot = i + 1]
             /\ UNCHANGED <<cache, cpc, wa_returned>>
        ELSE /\ slot_ready(i)
             /\ cache' = [cache EXCEPT ![i].state = CACHE_PENDING_WRITE]
             /\ cpc' = [cpc EXCEPT ![t] = "wa_pending"]
             /\ UNCHANGED <<creq, wa_returned>>
  /\ UNCHANGED <<CacheFrame, block, cio, cops>>

\* The writer picks the pending flush up once the accessors are gone.
cache_write_all_begin(t) ==
  /\ cpc[t] = "wa_pending"
  /\ LET i == creq[t].slot
     IN /\ cache[i].num_accessors = 0
        /\ cache' = [cache EXCEPT ![i].state = CACHE_BEING_WRITTEN]
        /\ cio' = [cio EXCEPT ![i] = @ \cup {t}]
  /\ cpc' = [cpc EXCEPT ![t] = "wa_write"]
  /\ UNCHANGED <<CacheFrame, block, creq, wa_returned, cops>>

\* The writeback has completed: the slot is clean and READY again.
cache_write_all_written(t) ==
  /\ cpc[t] = "wa_write"
  /\ LET i == creq[t].slot
     IN /\ block' = writeback(i)
        /\ cache' = [cache EXCEPT ![i].state = CACHE_READY,
                                  ![i].dirty_bit = FALSE]
        /\ cio' = [cio EXCEPT ![i] = @ \ {t}]
        /\ creq' = [creq EXCEPT ![t].slot = i + 1]
  /\ cpc' = [cpc EXCEPT ![t] = "wa"]
  /\ UNCHANGED <<CacheFrame, wa_returned, cops>>

\* The sector after SECTOR on the device, wrapping around.
NextSector(sector) == (sector % (NumSlots + 1)) + 1

CacheNext ==
  \/ \E t \in Threads, sector \in BlockSectors : cache_io_at_(t, sector)
  \/ \E t \in Threads, is_write \in BOOLEAN, data \in Data :
       cache_io_at(t, is_write, data)
  \/ \E t \in Threads :
       cache_transfer(t, FALSE, 0, NextSector(creq[t].sector_idx))
  \/ \E t \in CacheThreads : cache_find(t)
  \/ \E t \in CacheThreads : cache_evict_written(t)
  \/ \E t \in CacheThreads : cache_read_done(t)
  \/ \E t \in Threads : cache_write_all(t)
  \/ \E t \in Threads : cache_write_all_next(t)
  \/ \E t \in Threads : cache_write_all_begin(t)
  \/ \E t \in Threads : cache_write_all_written(t)

\* ============================================================ dir_open_dirs
\* A path is the sequence of its characters, without the terminating NUL.
Slash == "/"
PathChars == {Slash, "b", "."}
\* All strings of at most MaxPath characters.
Paths == UNION {[1..n -> PathChars] : n \in 0..MaxPath}

\* strchr (filepath, '/'): the index of the first slash, or 0.
strchr(str, c) ==
  LET hits == {i \in 1..Len(str) : str[i] = c}
  IN IF hits = {} THEN 0 ELSE CHOOSE i \in hits : \A j \in hits : i <= j
\* filepath + n
Skip(str, n) == SubSeq(str, n + 1, Len(str))

\* The directory tree dir_open_dirs runs on: /b and /b/b are directories
\* (sectors 2 and 4), /bb is a file (sector 3).
TreeSectors == {1, 2, 3, 4}
TreeDirs == {1, 2, 4}
TreeParent(s) == IF s = 4 THEN 2 ELSE ROOT_DIR_SECTOR
TreeDir(s) == <<Entry(s, DotName, TRUE), Entry(TreeParent(s), DotDotName, TRUE)>>
TreeEntries ==
  [s \in TreeDirs |->
     IF s = ROOT_DIR_SECTOR
     THEN TreeDir(s) \o <<Entry(2, <<"b">>, TRUE), Entry(3, <<"b", "b">>, TRUE)>>
     ELSE IF s = 2 THEN TreeDir(s) \o <<Entry(4, <<"b">>, TRUE)>>
     ELSE TreeDir(s)]

\* No thread is in dir_open_dirs and none has a working directory.
PathIdle ==
  /\ cwd = [t \in Threads |-> NoInode]
  /\ path_arg = [t \in Threads |-> <<>>]
  /\ filepath = [t \in Threads |-> <<>>]
  /\ parent_dir = [t \in Threads |-> NoInode]
  /\ curr_inode = [t \in Threads |-> NoInode]
  /\ curr_name = [t \in Threads |-> <<>>]
  /\ ppc = [t \in Threads |-> "idle"]
  /\ path_ret = [t \in Threads |-> NoInode]
  /\ path_nomem = [t \in Threads |-> FALSE]

\* The path with every run of consecutive slashes replaced by one slash.
RECURSIVE Collapse(_)
Collapse(str) ==
  IF Len(str) <= 1 THEN str
  ELSE IF str[1] = Slash /\ str[2] = Slash THEN Collapse(Tail(str))
  ELSE <<str[1]>> \o Collapse(Tail(str))

\* Two threads with the same working directory are about to call
\* dir_open_dirs, the second with the first one's path collapsed.
PathInit ==
  /\ FrameInit
  /\ CacheInit
  /\ ReadIdle
  /\ ientries = TreeEntries
  /\ iremoved = [s \in TreeSectors |-> FALSE]
  /\ ilock = [s \in TreeDirs |-> NULL]
  /\ dh = [t \in Threads |-> NoInode]
  /\ dres = [t \in Threads |-> NoInode]
  /\ dpc = [t \in Threads |-> "idle"]
  /\ dloc = [t \in Threads |-> NoLoc]
  /\ dpos = [t \in Threads |-> 0]
  /\ \E c \in {ROOT_DIR_SECTOR, 2} :
       /\ cwd = [t \in Threads |-> c]
       /\ iopen = [s \in TreeSectors |-> IF s = c THEN Cardinality(Threads) ELSE 0]
  /\ \E str \in Paths :
       path_arg = [t \in Threads |-> IF t = "t1" THEN str ELSE Collapse(str)]
  /\ filepath = [t \in Threads |-> <<>>]
  /\ parent_dir = [t \in Threads |-> NoInode]
  /\ curr_inode = [t \in Threads |-> NoInode]
  /\ curr_name = [t \in Threads |-> <<>>]
  /\ ppc = [t \in Threads |-> "call"]
  /\ path_ret = [t \in Threads |-> NoInode]
  /\ path_nomem = [t \in Threads |-> FALSE]

PathFrame == <<fvars, cvars, rvars, ientries, dh, dres, dpc, dloc, dpos, cwd, path_arg>>

\* if (filepath[0] == '/') parent_dir = dir_open_root (), filepath++;
\* else parent_dir = dir_reopen (thread_current ()->cwd);
\* if (parent_dir == NULL) goto fail;
\* MEM: calloc in dir_open succeeds; if not, dir_open closes the inode.
path_start_root(t, absolute) == ROOT_DIR_SECTOR
path_start(t, absolute) == IF absolute THEN ROOT_DIR_SECTOR ELSE cwd[t]

dir_open_dirs_begin(t, mem) ==
  /\ ppc[t] = "call"
  /\ LET absolute == path_arg[t] # <<>> /\ path_arg[t][1] = Slash
         start == path_start(t, absolute)
     IN /\ filepath' = [filepath EXCEPT ![t] =
                          IF absolute THEN Skip(path_arg[t], 1) ELSE path_arg[t]]
        /\ iopen' = IF mem THEN inode_opened(start) ELSE iopen
        /\ parent_dir' = [parent_dir EXCEPT ![t] = IF mem THEN start ELSE NoInode]
  /\ ppc' = [ppc EXCEPT ![t] = IF mem THEN "loop" ELSE "fail"]
  /\ path_nomem' = [path_nomem EXCEPT ![t] = ~mem]
  /\ UNCHANGED <<PathFrame, iremoved, ilock, curr_inode, curr_name, path_ret>>

\* One pass over the head of the while loop, up to the strlcpy:
\* no slash left: return parent_dir; trailing slash: goto fail; slash
\* first: filepath++; component longer than NAME_MAX: goto fail.
dir_open_dirs_next(t) ==
  /\ ppc[t] = "loop"
  /\ LET next_slash == strchr(filepath[t], Slash)
         curr_name_len == next_slash - 1
     IN IF next_slash = 0
        THEN /\ path_ret' = [path_ret EXCEPT ![t] = parent_dir[t]]
             /\ ppc' = [ppc EXCEPT ![t] = "ret"]
             /\ UNCHANGED <<filepath, curr_name>>
        ELSE IF next_slash = Len(filepath[t])
        THEN /\ ppc' = [ppc EXCEPT ![t] = "fail"]
             /\ UNCHANGED <<filepath, curr_name, path_ret>>
        ELSE IF next_slash = 1
        THEN /\ filepath' = [filepath EXCEPT ![t] = Skip(filepath[t], 1)]
             /\ UNCHANGED <<ppc, curr_name, path_ret>>
        ELSE IF curr_name_len > NAME_MAX
        THEN /\ ppc' = [ppc EXCEPT ![t] = "fail"]
             /\ UNCHANGED <<filepath, curr_name, path_ret>>
        ELSE /\ curr_name' = [curr_name EXCEPT ![t] =
                                strlcpy(filepath[t], curr_name_len + 1)]
             /\ ppc' = [ppc EXCEPT ![t] = "acquire"]
             /\ UNCHANGED <<filepath, path_ret>>
  /\ UNCHANGED <<PathFrame, iopen, iremoved, ilock, parent_dir, curr_inode,
                 path_nomem>>

\* lock_acquire (parent_dir->lock);
\* if (!dir_lookup (parent_dir, curr_name, &curr_inode)) goto fail;
dir_open_dirs_lookup(t) ==
  /\ ppc[t] = "acquire"
  /\ dir_lock_free(parent_dir[t])
  /\ ilock' = [ilock EXCEPT ![parent_dir[t]] = t]
  /\ LET ofs == lookup(ientries[parent_dir[t]], curr_name[t])
         sector == IF ofs = 0 THEN NoInode
                   ELSE ientries[parent_dir[t]][ofs].inode_sector
     IN /\ curr_inode' = [curr_inode EXCEPT ![t] = sector]
        /\ iopen' = IF ofs = 0 THEN iopen ELSE inode_opened(sector)
        /\ ppc' = [ppc EXCEPT ![t] = IF ofs = 0 THEN "fail" ELSE "release"]
  /\ UNCHANGED <<PathFrame, iremoved, filepath, parent_dir, curr_name,
                 path_ret, path_nomem>>

\* lock_release (parent_dir->lock);
dir_open_dirs_release(t) ==
  /\ ppc[t] = "release"
  /\ ilock' = [ilock EXCEPT ![parent_dir[t]] = NULL]
  /\ ppc' = [ppc EXCEPT ![t] = "descend"]
  /\ UNCHANGED <<PathFrame, iopen, iremoved, filepath, parent_dir, curr_inode,
                 curr_name, path_ret, path_nomem>>

PathLocals == <<fvars, cvars, rvars, dh, dres, dpc, dloc, dpos, cwd, path_arg>>

\* dir_close (parent_dir); parent_dir = dir_open (curr_inode);
\* if (parent_dir == NULL) goto fail; filepath = next_slash + 1;
\* dir_open keeps a directory inode when calloc succeeded (MEM) and
\* closes the inode otherwise.
dir_open_dirs_descend(t, mem) ==
  /\ ppc[t] = "descend"
  /\ LET old == parent_dir[t]
         new == curr_inode[t]
         count1 == inode_closed(old)
         opened == inode_isdir(new) /\ mem
     IN /\ iopen' = IF opened THEN count1 ELSE [count1 EXCEPT ![new] = @ - 1]
        /\ iremoved' = removed_after_close(old)
        /\ ientries' = entries_after_close(old)
        /\ parent_dir' = [parent_dir EXCEPT ![t] = IF opened THEN new ELSE NoInode]
        /\ ppc' = [ppc EXCEPT ![t] = IF opened THEN "loop" ELSE "fail"]
        /\ path_nomem' = [path_nomem EXCEPT ![t] = @ \/ (inode_isdir(new) /\ ~mem)]
  /\ filepath' = [filepath EXCEPT ![t] =
                    Skip(filepath[t], strchr(filepath[t], Slash))]
  /\ UNCHANGED <<PathLocals, ilock, curr_inode, curr_name, path_ret>>

\* if (... && lock_held_by_current_thread (parent_dir->lock))
\*   lock_release (parent_dir->lock);
fail_keeps_lock(t) == ilock
fail_release(t) ==
  IF ilock[parent_dir[t]] = t
  THEN [ilock EXCEPT ![parent_dir[t]] = NULL] ELSE ilock

\* fail: if (parent_dir != NULL && lock_held_by_current_thread (...))
\* lock_release (parent_dir->lock); dir_close (parent_dir); return NULL;
dir_open_dirs_fail(t) ==
  /\ ppc[t] = "fail"
  /\ IF parent_dir[t] # NoInode
     THEN /\ ilock' = fail_release(t)
          /\ iopen' = inode_closed(parent_dir[t])
          /\ iremoved' = removed_after_close(parent_dir[t])
          /\ ientries' = entries_after_close(parent_dir[t])
     ELSE UNCHANGED <<ilock, iopen, iremoved, ientries>>
  /\ parent_dir' = [parent_dir EXCEPT ![t] = NoInode]
  /\ path_ret' = [path_ret EXCEPT ![t] = NoInode]
  /\ ppc' = [ppc EXCEPT ![t] = "ret"]
  /\ UNCHANGED <<PathLocals, filepath, curr_inode, curr_name, path_nomem>>

\* The caller closes the directory dir_open_dirs returned: dir_close.
dir_close_returned(t) ==
  /\ ppc[t] = "ret" /\ path_ret[t] # NoInode
  /\ iopen' = inode_closed(path_ret[t])
  /\ iremoved' = removed_after_close(path_ret[t])
  /\ ientries' = entries_after_close(path_ret[t])
  /\ ppc' = [ppc EXCEPT ![t] = "closed"]
  /\ UNCHANGED <<PathLocals, ilock, filepath, parent_dir, curr_inode,
                 curr_name, path_ret, path_nomem>>

PathNext ==
  \/ \E t \in Threads, mem \in BOOLEAN : dir_open_dirs_begin(t, mem)
  \/ \E t \in Threads : dir_open_dirs_next(t)
  \/ \E t \in Threads : dir_open_dirs_lookup(t)
  \/ \E t \in Threads : dir_open_dirs_release(t)
  \/ \E t \in Threads, mem \in BOOLEAN : dir_open_dirs_descend(t, mem)
  \/ \E t \in Threads : dir_open_dirs_fail(t)
  \/ \E t \in Threads : dir_close_returned(t)

PathSpec == PathInit /\ [][PathNext]_vars

\* A directory as dir_create leaves it, with room for no entries, or as it
\* is after the dir_add of "." and ".." that follows.
ReadInit ==
  /\ FrameInit /\ PathIdle /\ CacheInit /\ ReadIdle
  /\ ientries \in {[s \in DirSectors |-> <<>>], [s \in DirSectors |-> FreshDir(s)]}
  /\ iopen = [s \in Sectors |-> 0]
  /\ iremoved = [s \in Sectors |-> FALSE]
  /\ ilock = [s \in DirSectors |-> NULL]
  /\ dh = [t \in Threads |-> NoInode]
  /\ dres = [t \in Threads |-> NoInode]
  /\ dpc = [t \in Threads |-> "idle"]
  /\ dloc = [t \in Threads |-> NoLoc]
  /\ dpos = [t \in Threads |-> 0]

\* Some thread has begun to read its directory.
Reading == \E t \in Threads : rd_ret[t] # "none"

\* The directory is opened and filled; once a thread reads it, the handles
\* stay and the directory is left as it is.
ReadNext ==
  \/ ~Reading /\ \E t \in Threads : dir_open_root(t)
  \/ ~Reading /\ \E t \in Threads, u \in Threads : dir_reopen(t, u)
  \/ ~Reading /\ \E t \in Threads : dir_close(t)
  \/ ~Reading /\ \E t \in Threads, n \in ReadNames :
                   \E sec \in NewSectors : dir_add_enter(t, n, sec)
  \/ \E t \in Threads : dir_add_write(t)
  \/ \E t \in Threads : dir_add_done(t)
  \/ ~Reading /\ \E t \in Threads, n \in ReadNames : dir_remove_enter(t, n)
  \/ \E t \in Threads : dir_remove_open(t)
  \/ \E t \in Threads : dir_remove_empty(t)
  \/ \E t \in Threads : dir_remove_erase(t)
  \/ \E t \in Threads : dir_remove_done(t)
  \/ \E t \in Threads : dir_readdir(t)

ReadSpec == ReadInit /\ [][ReadNext]_vars

\* The inode is open for the thread's running dir_remove: it was opened
\* and neither dir_open nor `done' has closed it.
held_by_remove(t, sec) ==
  /\ dpc[t] \in {"rm_empty", "rm_erase", "rm_done"}
  /\ dloc[t].inode = sec
  /\ inode_isdir(sec) => dloc[t].dir_removed = sec

\* The openings of an inode that some thread still has to close: its
\* handles, the inodes dir_lookup returned, those of a running dir_remove.
openers(sec) ==
  Cardinality({t \in Threads : dh[t] = sec})
  + Cardinality({t \in Threads : dres[t] = sec})
  + Cardinality({t \in Threads : held_by_remove(t, sec)})

\* Every open count is the number of openings still to be closed.
balanced == \A sec \in Sectors : iopen[sec] = openers(sec)

\* The directory functions with memory running out in dir_remove, followed
\* up to the first call that leaves an open count wrong.
BalanceNext ==
  \/ balanced /\ \E t \in Threads : dir_open_root(t)
  \/ balanced /\ \E t \in Threads, u \in Threads : dir_reopen(t, u)
  \/ balanced /\ \E t \in Threads : dir_close(t)
  \/ balanced /\ \E t \in Threads, n \in Names :
                   \E sec \in NewSectors : dir_add_enter(t, n, sec)
  \/ balanced /\ \E t \in Threads : dir_add_write(t)
  \/ balanced /\ \E t \in Threads : dir_add_done(t)
  \/ balanced /\ \E t \in Threads, n \in EntryNames : dir_remove_enter(t, n)
  \/ balanced /\ \E t \in Threads : dir_remove_open(t)
  \/ balanced /\ \E t \in Threads : dir_remove_open_nomem(t)
  \/ balanced /\ \E t \in Threads : dir_remove_empty(t)
  \/ balanced /\ \E t \in Threads : dir_remove_erase(t)
  \/ balanced /\ \E t \in Threads : dir_remove_done(t)
  \/ balanced /\ \E t \in Threads, returns \in BOOLEAN :
                   dir_remove_done_freed(t, returns)

Init == FrameInit /\ DirInit /\ PathIdle /\ CacheInit /\ ReadIdle

CacheSpec == Init /\ [][CacheNext]_vars

FrameSpec == Init /\ [][FrameNext]_vars

DirSpec == Init /\ [][DirNext]_vars

BalanceSpec == Init /\ [][BalanceNext]_vars

\* The steps of a directory function that has been called: the scheduler
\* runs every ready thread again (weak fairness), and a thread waiting in
\* lock_acquire gets the lock if it is released again and again (strong
\* fairness of the one acquisition made inside a call, by dir_empty).
dir_running(t) ==
  \/ dir_lookup_open(t)
  \/ dir_add_write(t) \/ dir_add_done(t)
  \/ dir_remove_open(t) \/ dir_remove_erase(t) \/ dir_remove_done(t)

\* The names removed where the locks are concerned: ".", ".." and the
\* name of a subdirectory.
LockNames == {DotName, DotDotName, ExactName}

\* The directory functions on a tree of directories: the entries added are
\* subdirectories, under the one valid name.
LockNext ==
  \/ \E t \in Threads : dir_open_root(t)
  \/ \E t \in Threads, u \in Threads : dir_reopen(t, u)
  \/ \E t \in Threads : dir_close(t)
  \/ \E t \in Threads : dir_open_found(t)
  \/ \E t \in Threads : inode_close_found(t)
  \/ \E t \in Threads, n \in EntryNames : dir_lookup_scan(t, n)
  \/ \E t \in Threads : dir_lookup_open(t)
  \/ \E t \in Threads : \E sec \in NewSectors \cap DirSectors :
       dir_add_enter(t, ExactName, sec)
  \/ \E t \in Threads : dir_add_write(t)
  \/ \E t \in Threads : dir_add_done(t)
  \/ \E t \in Threads, n \in LockNames : dir_remove_enter(t, n)
  \/ \E t \in Threads : dir_remove_open(t)
  \/ \E t \in Threads : dir_remove_empty(t)
  \/ \E t \in Threads : dir_remove_erase(t)
  \/ \E t \in Threads : dir_remove_done(t)

FairDirSpec ==
  /\ Init /\ [][LockNext]_vars
  /\ \A t \in Threads : WF_vars(dir_running(t)) /\ SF_vars(dir_remove_empty(t))

\* ===================================================== frame-table claims
\* The step just taken was a call of frame_evict (one scan iteration).
EvictCall == Len(scan_log') = Len(scan_log) + 1

\* C1: whenever no thread holds the frame-table lock, every frame built by
\* frame_init is on exactly one of free_frames and allocated_frames, once.
C1_ExactlyOneList ==
  frame_table_lock = NULL =>
    \A f \in Frames : Count(free_frames, f) + Count(allocated_frames, f) = 1

\* C1 witness: the lock is free, both lists are in use and a page is wired.
C1_Witness ==
  /\ frame_table_lock = NULL
  /\ free_frames # <<>> /\ allocated_frames # <<>>
  /\ \E f \in Frames : InList(allocated_frames, f) /\ page[f] # NULL

\* C2 (as claimed): in every reachable state every frame on the free list
\* has a null back-reference and is not pinned.
C2_FreeFramesClean ==
  \A f \in Frames : InList(free_frames, f) => page[f] = NULL /\ ~pinned[f]

\* C3: a frame that is pinned when frame_evict examines it is skipped
\* (page_evict is not called, its page and its place in allocated_frames are
\* kept), and a frame given to a frame_alloc caller has seen frame_unpin or
\* frame_free since it was last returned by frame_alloc.
C3_Step ==
  /\ EvictCall =>
       (pinned[last_evict'.frame] =>
          /\ ~last_evict'.called /\ ~last_evict'.ret
          /\ page' = page /\ allocated_frames' = allocated_frames)
  /\ \A t \in Threads :
       (fpc[t] # "alloc_pin" /\ fpc'[t] = "alloc_pin") =>
          /\ ~guarded[fframe'[t]]
          /\ (alloc_via'[t] = "evict" => ~pinned[fframe'[t]])

C3_EvictionSkipsPinned == [][C3_Step]_vars

\* C3 witness: a scan passed over a pinned frame and evicted a later one.
C3_Witness ==
  \E t \in Threads :
    /\ fpc[t] = "alloc_pin" /\ alloc_via[t] = "evict"
    /\ Len(scan_log) >= 2 /\ scan_log[1].was_pinned
    /\ guarded[scan_log[1].frame]

\* C4: when frame_alloc releases the lock, the frame it returns has a null
\* back-reference, is pinned, and is on allocated_frames exactly once (and
\* not on free_frames), on the free-list path and on the eviction path.
C4_AllocResult ==
  \A t \in Threads :
    fpc[t] = "alloc_release" =>
      /\ page[fframe[t]] = NULL
      /\ pinned[fframe[t]]
      /\ Count(allocated_frames, fframe[t]) = 1
      /\ ~InList(free_frames, fframe[t])

\* C4 witness: frame_alloc is about to return a frame it evicted a page from.
C4_Witness ==
  \E t \in Threads :
    /\ fpc[t] = "alloc_release" /\ alloc_via[t] = "evict"
    /\ last_evict.had_page # NULL /\ last_evict.frame = fframe[t]

\* C5: with an empty free list frame_alloc examines allocated_frames from
\* the front, in order; each frame examined is taken iff it is unpinned and
\* its page (if any) accepts eviction; the first such frame is returned,
\* and the kernel panics exactly when no frame of the list is such a frame.
Evictable(o) == ~o.was_pinned /\ (o.had_page = NULL \/ o.accepts)

C5_ScanOrder ==
  \A t \in Threads :
    /\ alloc_via[t] = "evict" => free_frames = <<>>
    /\ (alloc_via[t] = "free" /\ fpc[t] = "alloc_pin") => scan_log = <<>>
    /\ (alloc_via[t] = "evict" /\ fpc[t] \in {"scan", "alloc_pin", "panic"}) =>
         /\ Len(scan_log) <= Len(scan_start)
         /\ \A i \in 1..Len(scan_log) :
              /\ scan_log[i].frame = scan_start[i]
              /\ scan_log[i].ret = Evictable(scan_log[i])
         /\ \A i \in 1..(Len(scan_log) - 1) : ~scan_log[i].ret
    /\ (alloc_via[t] = "evict" /\ fpc[t] = "scan") =>
         \A i \in 1..Len(scan_log) : ~scan_log[i].ret
    /\ (alloc_via[t] = "evict" /\ fpc[t] = "alloc_pin") =>
         /\ scan_log # <<>>
         /\ scan_log[Len(scan_log)].ret
         /\ fframe[t] = scan_log[Len(scan_log)].frame
    /\ fpc[t] = "panic" =>
         /\ free_frames = <<>>
         /\ Len(scan_log) = Len(scan_start)
         /\ \A i \in 1..Len(scan_log) : ~Evictable(scan_log[i])

\* C5 witness: every frame of the pool was allocated and is still pinned,
\* and the next frame_alloc has panicked.
C5_Witness ==
  /\ panicked
  /\ Len(allocated_frames) = NumFrames
  /\ \A f \in Frames : pinned[f] /\ guarded[f]

\* C6: a frame_evict that meets a pinned frame or a page refusing eviction
\* returns false and leaves pages, pinned flags and both lists as they
\* were; a frame_evict that returns true clears that frame's back-reference
\* and unlinks it from allocated_frames, and changes nothing else.
C6_Step ==
  EvictCall =>
    LET o == last_evict'
        f == o.frame
    IN /\ (pinned[f] \/ (page[f] # NULL /\ ~o.accepts)) => ~o.ret
       /\ ~o.ret => /\ page' = page /\ pinned' = pinned
                    /\ free_frames' = free_frames
                    /\ allocated_frames' = allocated_frames
       /\ o.ret => /\ page' = [page EXCEPT ![f] = NULL]
                   /\ pinned' = pinned
                   /\ free_frames' = free_frames
                   /\ allocated_frames' = list_remove(allocated_frames, f)
                   /\ ~InList(allocated_frames', f)

C6_EvictFailureNoChange == [][C6_Step]_vars

\* C6 witness: page_evict was asked and refused, so frame_evict failed.
C6_Witness ==
  /\ last_evict.called /\ ~last_evict.accepts /\ ~last_evict.ret
  /\ last_evict.had_page # NULL
  /\ page[last_evict.frame] = last_evict.had_page

\* ======================================================= directory claims
InUseNames(entries) == {i \in 1..Len(entries) : entries[i].in_use}
\* The sector dir_lookup would open for NAME, or NoInode.
LookupSector(entries, name) ==
  IF lookup(entries, name) = 0 THEN NoInode
  ELSE entries[lookup(entries, name)].inode_sector
AllNames == Names \cup {DotName, DotDotName}

\* C7: in no directory inode do two in-use entries carry the same name.
C7_NoDuplicateNames ==
  \A s \in DirSectors :
    \A i \in InUseNames(ientries[s]), j \in InUseNames(ientries[s]) :
      i # j => ientries[s][i].name # ientries[s][j].name

\* C7 witness: two threads hold handles on one inode, the name is in the
\* directory, and one thread's dir_add of that name has just been refused.
C7_Witness ==
  \E t \in Threads, u \in Threads :
    /\ t # u /\ dh[t] # NoInode /\ dh[t] = dh[u]
    /\ dpc[t] = "add_done" /\ ~dloc[t].success
    /\ dloc[t].name = ExactName
    /\ lookup(ientries[dh[t]], ExactName) # 0

\* C8: when dir_add has written its entry, a lookup of the name finds the
\* sector that was added and lookups of all other names find what they
\* found before; when dir_remove has erased the entry, a lookup of the name
\* finds nothing; and dir_lookup returns an inode opened at the sector its
\* scan found, or NULL and false when the scan found nothing.
C8_Step ==
  \A t \in Threads :
    /\ (dpc[t] = "add_write" /\ dpc'[t] = "add_done") =>
         /\ dloc'[t].success
         /\ LookupSector(ientries'[dh[t]], dloc[t].name) = dloc[t].sector
         /\ \A m \in AllNames \ {dloc[t].name} :
              LookupSector(ientries'[dh[t]], m) = LookupSector(ientries[dh[t]], m)
    /\ (dpc[t] = "rm_erase" /\ dpc'[t] = "rm_done") =>
         /\ dloc'[t].success
         /\ lookup(ientries'[dh[t]], dloc[t].name) = 0
    /\ (dpc[t] = "idle" /\ dpc'[t] = "lk_open") =>
         dloc'[t].sector = LookupSector(ientries[dh[t]], dloc'[t].name)
    /\ (dpc[t] = "lk_open" /\ dpc'[t] # "lk_open") =>
         IF dloc[t].sector # NoInode
         THEN /\ dpc'[t] = "lk_found" /\ dres'[t] = dloc[t].sector
              /\ iopen'[dloc[t].sector] = iopen[dloc[t].sector] + 1
         ELSE dpc'[t] = "idle" /\ dres'[t] = NoInode /\ iopen' = iopen

C8_RoundTrip == [][C8_Step]_vars

\* C8 witness: dir_lookup has returned the file inode that dir_add linked.
C8_Witness ==
  \E t \in Threads :
    /\ dpc[t] = "lk_found" /\ dres[t] = 3
    /\ LookupSector(ientries[dh[t]], ExactName) = 3

\* C9: dir_add with an empty name, a name longer than NAME_MAX or a name
\* already in use writes nothing and returns false; a name of 1..NAME_MAX
\* bytes that is not in use is written in full and dir_add returns true;
\* when dir_add returns, the caller does not hold the directory lock.
C9_Step ==
  \A t \in Threads :
    /\ (dpc[t] = "idle" /\ dpc'[t] \in {"add_done", "add_write"}) =>
         LET n == dloc'[t].name
             present == lookup(ientries[dh[t]], n) # 0
             badlen == Len(n) = 0 \/ Len(n) > NAME_MAX
         IN /\ ientries' = ientries
            /\ (badlen \/ present) =>
                 dpc'[t] = "add_done" /\ ~dloc'[t].success
            /\ badlen => ilock' = ilock
            /\ (~badlen /\ ~present) => dpc'[t] = "add_write"
    /\ (dpc[t] = "add_write" /\ dpc'[t] # "add_write") =>
         /\ dpc'[t] = "add_done" /\ dloc'[t].success
         /\ \E i \in InUseNames(ientries'[dh[t]]) :
              /\ ientries'[dh[t]][i].name = dloc[t].name
              /\ ientries'[dh[t]][i].inode_sector = dloc[t].sector
    /\ (dpc[t] = "add_done" /\ dpc'[t] # "add_done") =>
         /\ dpc'[t] = "idle"
         /\ ientries' = ientries
         /\ ilock'[dh[t]] # t

HasOtherEntry(entries) ==
  \E i \in InUseNames(entries) :
    entries[i].name # DotName /\ entries[i].name # DotDotName

C10_Checked ==
  \A t \in Threads :
    (dpc[t] = "rm_erase" \/ (dpc[t] = "rm_done" /\ dloc[t].success)) =>
      (inode_isdir(dloc[t].inode) =>
         dloc[t].chk_count = 1 /\ dloc[t].chk_empty)

C10_Step ==
  \A t \in Threads :
    /\ (dpc[t] = "rm_open" /\ dpc'[t] # "rm_open"
          /\ inode_isdir(dloc[t].sector)) =>
         /\ dloc'[t].chk_count = iopen[dloc[t].sector] + 1
         /\ dloc'[t].chk_count # 1 =>
              /\ dpc'[t] = "rm_done" /\ ~dloc'[t].success
              /\ ientries' = ientries /\ iremoved' = iremoved
         /\ dloc'[t].chk_count = 1 => dpc'[t] = "rm_empty"
    /\ (dpc[t] = "rm_empty" /\ dpc'[t] # "rm_empty") =>
         /\ dloc'[t].chk_empty = ~HasOtherEntry(ientries[dloc[t].inode])
         /\ HasOtherEntry(ientries[dloc[t].inode]) =>
              /\ dpc'[t] = "rm_done" /\ ~dloc'[t].success
              /\ ientries' = ientries /\ iremoved' = iremoved
         /\ ~HasOtherEntry(ientries[dloc[t].inode]) => dpc'[t] = "rm_erase"
    /\ (dpc[t] = "rm_erase" /\ dpc'[t] # "rm_erase") =>
         /\ dpc'[t] = "rm_done" /\ dloc'[t].success
         /\ ~ientries'[dh[t]][dloc[t].ofs].in_use
         /\ iremoved'[dloc[t].sector]
    /\ (dpc[t] = "rm_done" /\ dpc'[t] = "idle"
          /\ ~dloc[t].success /\ dloc[t].ofs # 0) =>
         /\ ientries'[dh[t]][dloc[t].ofs].in_use
         /\ ientries'[dh[t]][dloc[t].ofs].name = dloc[t].name
         /\ iremoved'[dloc[t].sector] => iremoved[dloc[t].sector]

C10_OriginalStep ==
  \A t \in Threads :
    (/\ dpc[t] = "rm_open" /\ dpc'[t] # "rm_open"
     /\ inode_isdir(dloc[t].sector)
     /\ dloc[t].name \notin {DotName, DotDotName}
     /\ dloc[t].sector # dh[t]
     /\ Len(ientries[dloc[t].sector]) >= 3
     /\ ~HasOtherEntry(ientries[dloc[t].sector]))
      => dpc'[t] = "rm_empty"

Holds(t, s) ==
  \/ dh[t] = s
  \/ dpc[t] = "lk_found" /\ dres[t] = s

C11_NoDanglingHandles ==
  \A s \in DirSectors :
    iremoved[s] => \A t \in Threads : ~Holds(t, s)

\* C12: between the scan of dir_lookup and its inode_open of the entry
\* found, the calling thread holds the lock of the directory it scanned.
C12_LookupUnderLock ==
  \A t \in Threads :
    dpc[t] = "lk_open" => ilock[dh[t]] = t

\* ========================================================== path claims
LocksHeld(t) == {s \in DOMAIN ilock : ilock[s] = t}

\* C13: a thread in dir_open_dirs holds at most one directory lock; it
\* holds the parent's lock only from the lookup of a component to the
\* release that precedes the descent (or to `fail'), and none when the
\* function has returned.
C13_OneLockAtATime ==
  \A t \in Threads :
    /\ Cardinality(LocksHeld(t)) <= 1
    /\ ppc[t] \in {"call", "loop", "acquire", "descend", "ret", "closed"}
         => LocksHeld(t) = {}
    /\ ppc[t] = "release" => LocksHeld(t) = {parent_dir[t]}
    /\ ppc[t] = "fail" => LocksHeld(t) \subseteq {parent_dir[t]}

\* C13 witness: a lookup missed, so the thread is at `fail' with the
\* parent's lock still held.
C13_Witness ==
  \E t \in Threads :
    /\ ppc[t] = "fail" /\ parent_dir[t] # NoInode
    /\ ilock[parent_dir[t]] = t

Returned(t) == ppc[t] \in {"ret", "closed"}
EndsInSlash(str) == str # <<>> /\ str[Len(str)] = Slash

\* C14: the path and the path with its runs of slashes collapsed give the
\* same outcome (memory permitting), and a path that ends in a slash makes
\* dir_open_dirs return NULL.
C14_Collapsed ==
  (/\ Returned("t1") /\ Returned("t2")
   /\ ~path_nomem["t1"] /\ ~path_nomem["t2"])
    => path_ret["t1"] = path_ret["t2"]

C14_TrailingSlash ==
  \A t \in Threads :
    (Returned(t) /\ EndsInSlash(path_arg[t])) => path_ret[t] = NoInode

C14_PathSyntax == C14_Collapsed /\ C14_TrailingSlash

\* The components of a path: its maximal runs of characters other than '/'.
RECURSIVE Components(_)
Components(str) ==
  IF str = <<>> THEN <<>>
  ELSE IF str[1] = Slash THEN Components(Tail(str))
  ELSE LET rest == {i \in 1..Len(str) : str[i] = Slash}
           n == IF rest = {} THEN Len(str) + 1
                ELSE CHOOSE i \in rest : \A j \in rest : i <= j
       IN <<SubSeq(str, 1, n - 1)>> \o Components(SubSeq(str, n, Len(str)))

WellFormed(str) ==
  /\ Components(str) # <<>>
  /\ ~EndsInSlash(str)
  /\ Collapse(str) = str

\* The directory reached from D by looking up COMPS in turn, or NoInode
\* when a component is too long, missing, or not a directory.
RECURSIVE Walk(_, _)
Walk(d, comps) ==
  IF comps = <<>> THEN d
  ELSE LET c == Head(comps)
           hits == {i \in 1..Len(ientries[d]) :
                      ientries[d][i].in_use /\ ientries[d][i].name = c}
       IN IF Len(c) > NAME_MAX \/ hits = {} THEN NoInode
          ELSE LET sec == ientries[d][CHOOSE i \in hits : \A j \in hits : i <= j].inode_sector
               IN IF sec \in TreeDirs THEN Walk(sec, Tail(comps)) ELSE NoInode

Expected(t) ==
  LET comps == Components(path_arg[t])
      start == IF path_arg[t][1] = Slash THEN ROOT_DIR_SECTOR ELSE cwd[t]
  IN Walk(start, SubSeq(comps, 1, Len(comps) - 1))

\* The handles on inode S: working directories, directories held or
\* returned by dir_open_dirs, and inodes dir_lookup has just opened.
PathHandles(s) ==
  Cardinality({t \in Threads : cwd[t] = s})
  + Cardinality({t \in Threads : ppc[t] = "ret" /\ path_ret[t] = s})
  + Cardinality({t \in Threads : ppc[t] \notin {"call", "ret", "closed"}
                                   /\ parent_dir[t] = s})
  + Cardinality({t \in Threads : ppc[t] \in {"release", "descend"}
                                   /\ curr_inode[t] = s})

\* C15: for a well-formed path c1/.../ck dir_open_dirs returns the
\* directory reached by looking up c1..c(k-1) from the root (absolute) or
\* from the working directory (relative), and NULL when one of them is too
\* long, missing or not a directory; the handle returned is one more
\* opener of that inode, apart from the working directory's handle.
C15_Resolution ==
  /\ \A t \in Threads :
       (Returned(t) /\ WellFormed(path_arg[t]) /\ ~path_nomem[t])
         => path_ret[t] = Expected(t)
  /\ \A s \in TreeSectors : iopen[s] = PathHandles(s)

\* C15 witness: with the working directory /b, "b/b" has resolved to /b/b
\* and nobody else holds /b/b.
C15_Witness ==
  \E t \in Threads :
    /\ ppc[t] = "ret" /\ cwd[t] = 2
    /\ path_arg[t] = <<"b", Slash, "b">> /\ path_ret[t] = 4
    /\ iopen[4] = 1 /\ iopen[2] = 2

\* ===================================================== buffer-cache claims

\* The threads inside the buffer of slot i: between the lookup that made
\* them accessors and the end of their transfer.
Accessors(i) == {u \in CacheThreads : cpc[u] = "copy" /\ creq[u].slot = i}

InFlight(i) == cache[i].state \in {CACHE_BEING_READ, CACHE_BEING_WRITTEN}

\* C16: whenever a slot is CACHE_BEING_READ or CACHE_BEING_WRITTEN exactly
\* one thread performs that device operation on it, no thread performs a
\* device operation on a slot in another state, and no thread is inside
\* the buffer of a slot that is being read or written: the accessors wait
\* until the slot is CACHE_READY again.
C16_OneDeviceOperation ==
  \A i \in Slots :
    /\ InFlight(i) => Cardinality(cio[i]) = 1
    /\ ~InFlight(i) => cio[i] = {}
    /\ InFlight(i) => Accessors(i) = {} /\ cache[i].num_accessors = 0
    /\ cache[i].num_accessors = Cardinality(Accessors(i))

\* A slot is being read by one thread while another thread, that asked
\* for the same sector, waits for it.
C16_Witness ==
  \E i \in Slots, t, u \in CacheThreads :
    /\ t # u
    /\ cache[i].state = CACHE_BEING_READ /\ cio[i] = {t}
    /\ cpc[u] = "find" /\ creq[u].sector_idx = cache[i].sector_idx

\* No slot is dirty, and every loaded buffer equals the device image.
Flushed ==
  \A i \in Slots :
    /\ ~cache[i].dirty_bit
    /\ cache[i].state \notin {CACHE_EVICTED, CACHE_BEING_READ}
         => cache[i].buffer = block[cache[i].sector_idx]

\* A dirty bit is cleared only by the step that completes the writeback
\* of the slot.
DirtyKept ==
  \A i \in Slots :
    cache[i].dirty_bit /\ ~cache'[i].dirty_bit
      => /\ cache[i].state = CACHE_BEING_WRITTEN
         /\ block'[cache[i].sector_idx] = cache[i].buffer

InCall(t) == dpc[t] \notin {"idle", "lk_found"}

\* The thread waits in lock_acquire while it holds a lock: only dir_empty,
\* called by dir_remove, acquires a lock inside a critical section.
Waiting(t) == dpc[t] = "rm_empty" /\ ilock[dloc[t].dir_removed] # NULL

\* No thread acquires a lock it holds, and no thread waits for a lock whose
\* holder is waiting as well.
NoWaitCycle ==
  \A t \in Threads :
    dpc[t] = "rm_empty"
      => /\ ilock[dloc[t].dir_removed] # t
         /\ Waiting(t) => ~Waiting(ilock[dloc[t].dir_removed])

ListedNames(entries) ==
  LET listed == SelectSeq(entries, LAMBDA e :
                  e.in_use /\ e.name # DotName /\ e.name # DotDotName)
  IN [i \in 1..Len(listed) |-> listed[i].name]

\* No call of dir_add or dir_remove is in progress.
NoMutation == \A u \in Threads : dpc[u] = "idle"

\* C19: when dir_readdir returns false on a handle that was read from the
\* position dir_open gave it, with the directory left unchanged meanwhile,
\* the names it returned before are those of the in-use entries other than
\* "." and "..", each once and in slot order; this for every handle on
\* the directory, each with its own cursor.
C19_ReaddirNames ==
  \A t \in Threads :
    rd_ret[t] = "false" /\ NoMutation
      => rd_names[t] = ListedNames(ientries[dh[t]])

\* ===================================================== open/close balance

\* C20: every inode dir_remove opens it closes exactly once, so whenever no
\* call is running the open count of every inode is the number of handles
\* and looked-up inodes the threads hold on it, as it was before the call;
\* dir_open_dirs keeps the same balance (PathHandles).
C20_OpenCloseBalance ==
  (\A t \in Threads : dpc[t] \in {"idle", "lk_found"}) => balanced

====
